---------------------------- MODULE Spec2Model ----------------------------
(***************************************************************************)
(* Model of the DPULSE scan orchestration in src/dpulse.py: the            *)
(* interactive scan flow of run() (menu choice 1), the headless entry      *)
(* point run_headless_scan(), and process_report(), which both share;      *)
(* the report storage menu (choice 4) with the check of the store at       *)
(* module load, and the API manager (choice 5); and of the dashboards in   *)
(* src/main.py and src/streamlit_app.py: run_streamed() with its child     *)
(* process and pipes, and list_reports() under st.cache_data.              *)
(*                                                                         *)
(* Python strings are sequences of one-character strings, so that          *)
(* str.lower(), str.split(','), str.strip(), str.replace() and the         *)
(* f-strings of the source are computed, not assumed.                      *)
(***************************************************************************)
EXTENDS Integers, Sequences, FiniteSets, TLC

(***************************************************************************)
(* Bounds of the model.                                                    *)
(***************************************************************************)
\* scan requests (CLI domain entries / headless calls) per run of the program
MaxScans == 2
\* lines a child process of run_streamed writes before it exits
MaxWrites == 3
\* lines a pipe holds before a write to it blocks
PipeCap == 1

(***************************************************************************)
(* Strings.                                                                *)
(***************************************************************************)
\* Python's None, as a value comparable with strings (sequences)
None == <<"<None>">>
\* None where a list of strings is expected
NoneList == <<None>>
\* a local variable of run() that no assignment has bound yet
Unbound == <<"<unbound>">>

UpperChars == <<"A","B","C","D","E","F","G","H","I","J","K","L","M",
                "N","O","P","Q","R","S","T","U","V","W","X","Y","Z">>
LowerChars == <<"a","b","c","d","e","f","g","h","i","j","k","l","m",
                "n","o","p","q","r","s","t","u","v","w","x","y","z">>
DigitChars == <<"0","1","2","3","4","5","6","7","8","9">>

IsUpper(c) == \E i \in 1..26 : UpperChars[i] = c
IsLetter(c) == IsUpper(c) \/ \E i \in 1..26 : LowerChars[i] = c
IsDigit(c) == \E i \in 1..10 : DigitChars[i] = c

LowerChar(c) == IF IsUpper(c)
                THEN LowerChars[CHOOSE i \in 1..26 : UpperChars[i] = c]
                ELSE c

\* str.lower()
Lower(s) == [i \in 1..Len(s) |-> LowerChar(s[i])]
\* c in s, for a one-character c
HasChar(s, c) == \E i \in 1..Len(s) : s[i] = c
\* str.replace(a, b) for one-character a and b
ReplaceChar(s, a, b) == [i \in 1..Len(s) |-> IF s[i] = a THEN b ELSE s[i]]

\* str.strip(): leading and trailing blanks removed
RECURSIVE LStrip(_)
LStrip(s) == IF s # <<>> /\ Head(s) = " " THEN LStrip(Tail(s)) ELSE s
RECURSIVE RStrip(_)
RStrip(s) == IF s # <<>> /\ s[Len(s)] = " "
             THEN RStrip(SubSeq(s, 1, Len(s) - 1)) ELSE s
Strip(s) == RStrip(LStrip(s))

\* str.split(c): the pieces between the separators; one piece for no separator
RECURSIVE SplitAcc(_, _, _)
SplitAcc(s, c, cur) ==
    IF s = <<>> THEN <<cur>>
    ELSE IF Head(s) = c THEN <<cur>> \o SplitAcc(Tail(s), c, <<>>)
    ELSE SplitAcc(Tail(s), c, Append(cur, Head(s)))
Split(s, c) == SplitAcc(s, c, <<>>)

\* [item.strip() for item in s.split(',')]
SplitStrip(s) == LET parts == Split(s, ",")
                 IN  [i \in 1..Len(parts) |-> Strip(parts[i])]

\* str(n) for a natural number n
RECURSIVE IntToStr(_)
IntToStr(n) == IF n < 10 THEN <<DigitChars[n + 1]>>
               ELSE IntToStr(n \div 10) \o <<DigitChars[(n % 10) + 1]>>

\* x in xs, for a list xs
InList(x, xs) == \E i \in 1..Len(xs) : xs[i] = x
\* s.startswith(p)
StartsWith(s, p) == Len(p) <= Len(s) /\ SubSeq(s, 1, Len(p)) = p
\* ", ".join(xs)
RECURSIVE JoinComma(_)
JoinComma(xs) == IF xs = <<>> THEN <<>>
                 ELSE IF Len(xs) = 1 THEN xs[1]
                 ELSE xs[1] \o <<",", " ">> \o JoinComma(Tail(xs))

\* str(xs) for a list of strings: ['k', 'j']
RECURSIVE QuoteAll(_)
QuoteAll(xs) == IF xs = <<>> THEN <<>>
                ELSE <<<<"'">> \o xs[1] \o <<"'">>>> \o QuoteAll(Tail(xs))
ListRepr(xs) == IF xs = NoneList THEN <<"N", "o", "n", "e">>
                ELSE <<"[">> \o JoinComma(QuoteAll(xs)) \o <<"]">>

\* re.match(domain_patter, s) is not None, for
\* ^(?!\-)(?:[a-zA-Z0-9\-]{1,63}\.)+[a-zA-Z]{2,}$
IsLabel(l) == /\ Len(l) >= 1
              /\ Len(l) <= 63
              /\ \A i \in 1..Len(l) : IsLetter(l[i]) \/ IsDigit(l[i]) \/ l[i] = "-"
IsTld(l) == Len(l) >= 2 /\ \A i \in 1..Len(l) : IsLetter(l[i])
MatchesDomain(s) ==
    LET labels == Split(s, ".")
    IN  /\ s # <<>>
        /\ s[1] # "-"
        /\ Len(labels) >= 2
        /\ \A i \in 1..(Len(labels) - 1) : IsLabel(labels[i])
        /\ IsTld(labels[Len(labels)])

(***************************************************************************)
(* The stores the orchestrator reads: the dork template files, the API     *)
(* credential table.  Their code (db_creator, db_processing) is not part   *)
(* of the orchestrator; they are modelled from the interface description.  *)
(***************************************************************************)
FixedCategories == {<<"b", "a", "s", "i", "c">>, <<"i", "o", "t">>, <<"f", "i", "l", "e", "s">>, <<"a", "d", "m", "i", "n", "s">>, <<"w", "e", "b">>}

\* category -> the file holding its collection
CategoryFile(c) ==
    CASE c = <<"b", "a", "s", "i", "c">>  -> <<"b", "a", "s", "i", "c", "_", "d", "o", "r", "k", "i", "n", "g", ".", "d", "b">>
      [] c = <<"i", "o", "t">>    -> <<"i", "o", "t", "_", "d", "o", "r", "k", "i", "n", "g", ".", "d", "b">>
      [] c = <<"f", "i", "l", "e", "s">>  -> <<"f", "i", "l", "e", "s", "_", "d", "o", "r", "k", "i", "n", "g", ".", "d", "b">>
      [] c = <<"a", "d", "m", "i", "n", "s">> -> <<"a", "d", "m", "i", "n", "p", "a", "n", "e", "l", "s", "_", "d", "o", "r", "k", "i", "n", "g", ".", "d", "b">>
      [] c = <<"w", "e", "b">>    -> <<"w", "e", "b", "s", "t", "r", "u", "c", "t", "u", "r", "e", "_", "d", "o", "r", "k", "i", "n", "g", ".", "d", "b">>

\* category -> the table of that file holding its templates
BackingTable(c) ==
    CASE c = <<"b", "a", "s", "i", "c">>  -> <<"b", "a", "s", "i", "c", "_", "d", "o", "r", "k", "s">>
      [] c = <<"i", "o", "t">>    -> <<"i", "o", "t", "_", "d", "o", "r", "k", "s">>
      [] c = <<"f", "i", "l", "e", "s">>  -> <<"f", "i", "l", "e", "s", "_", "d", "o", "r", "k", "s">>
      [] c = <<"a", "d", "m", "i", "n", "s">> -> <<"a", "d", "m", "i", "n", "p", "a", "n", "e", "l", "s", "_", "d", "o", "r", "k", "s">>
      [] c = <<"w", "e", "b">>    -> <<"w", "e", "b", "s", "t", "r", "u", "c", "t", "u", "r", "e", "_", "d", "o", "r", "k", "s">>

\* rows of each category's table in the fixture
BaseRows(c) ==
    CASE c = <<"b", "a", "s", "i", "c">>  -> 5
      [] c = <<"i", "o", "t">>    -> 3
      [] c = <<"f", "i", "l", "e", "s">>  -> 0
      [] c = <<"a", "d", "m", "i", "n", "s">> -> 12
      [] c = <<"w", "e", "b">>    -> 7

\* the custom collections that exist, each a table named dorks in its own file
CustomCollections == {<<"m", "i", "n", "e">>}
CustomFile(name) == <<"d", "o", "r", "k", "i", "n", "g", "/", "/">> \o name \o <<".", "d", "b">>

DorkPath(c) == <<"d", "o", "r", "k", "i", "n", "g", "/", "/">> \o CategoryFile(c)

\* the dork files: path -> table -> number of rows
DorkStore ==
    [p \in {DorkPath(c) : c \in FixedCategories}
           \cup {CustomFile(n) : n \in CustomCollections} |->
        IF \E c \in FixedCategories : p = DorkPath(c)
        THEN LET c == CHOOSE c \in FixedCategories : p = DorkPath(c)
             IN  [t \in {BackingTable(c)} |-> BaseRows(c)]
        ELSE [t \in {<<"d", "o", "r", "k", "s">>} |-> 2]]

\* the credential table: id -> api_key ('' for a key that was never set)
ApiKeys == [i \in {<<"1">>, <<"2">>, <<"3">>} |->
               IF i = <<"2">> THEN <<>> ELSE <<"K", "E", "Y">> \o i]

\* the reference credential set the program ships: every key still unset
ApiReference == [i \in {<<"1">>, <<"2">>, <<"3">>} |-> <<>>]

\* a report store that already holds the report of an earlier scan (id 1)
StoredReports == <<[domain |-> <<"a", ".", "i", "o">>, case_comment |-> <<"c", "a", "s", "e">>, format |-> <<"h", "t", "m", "l">>]>>

\* Validate(identifiers): valid, invalid-unknown or invalid-empty-key
Validate(keys, i) == IF i \notin DOMAIN keys THEN "invalid-unknown"
                     ELSE IF keys[i] = <<>> THEN "invalid-empty-key"
                     ELSE "valid"

(***************************************************************************)
(* State.                                                                  *)
(***************************************************************************)
VARIABLES
    entry,           \* "cli": dpulse.py run as a program, the scan dialogue;
                     \* "headless": imported by the dashboard;
                     \* "api_manager", "report_manager": run as a program, the
                     \* session spent in menu 5 or in menu 4
    pc,              \* where control is
    scans,           \* scan requests started so far
    RICH_AVAILABLE,  \* whether the import of rich succeeded
    misc_available,  \* whether `from misc import domain_precheck` succeeds
    loc,             \* the arguments and local variables of the scan in progress
    spinner_thread,  \* "none" (None), "running" or "stopped" (do_run = False, joined)
    obs,             \* what the scan in progress has done so far
    result,          \* the dict run_headless_scan returned
    dork_store,      \* the dork template files
    api_keys,        \* the credential table
    api_db,          \* apis//api_keys.db: "complete", "absent" or "partial"
    api_reference,   \* whether apis//api_keys_reference.db exists
    seen,            \* what a concurrent reader last found of apis//api_keys.db,
                     \* and which operation of the manager was under way
    mgr,             \* the API manager: the operation in progress or just done
    rsdb_present,    \* whether report_storage.db exists
    rsdb_init,       \* the last check of its presence, and what followed
    report_storage,  \* the rows of the report store, oldest first
    recreated,       \* the directories report_recreated_ID#<id>
    rec,             \* the Recreate in progress or just done, of each instance
    reports_dir,     \* the files in reports/
    stream,          \* run_streamed: the child process, its pipes and the reader
    st_cache,        \* st.cache_data: the stored return value of list_reports
    listed           \* the last return of list_reports and reports/ at that call

vars == <<entry, pc, scans, RICH_AVAILABLE, misc_available, loc, spinner_thread,
          obs, result, dork_store, api_keys, api_db, api_reference, seen, mgr,
          rsdb_present, rsdb_init, report_storage, recreated, rec, reports_dir,
          stream, st_cache, listed>>

\* what the imports found, and the files of the credential store
imports == <<entry, RICH_AVAILABLE, misc_available, dork_store>>
api_files == <<api_keys, api_db, api_reference, seen>>

\* the Recreate operations and their directories
recreations == <<recreated, rec>>

\* what a scan leaves alone
env == <<imports, api_files, mgr, rsdb_present, rsdb_init, recreations, stream,
        st_cache, listed>>

\* the locals of a scan before anything is bound
InitLoc == [short_domain |-> Unbound, url |-> Unbound, case_comment |-> Unbound,
            report_filetype |-> Unbound, pagesearch_flag |-> Unbound,
            keywords_list |-> <<Unbound>>, keywords_flag |-> -1,
            dorking_flag |-> Unbound, api_flag |-> Unbound,
            used_api_flag |-> <<Unbound>>,
            username |-> Unbound, snapshotting_flag |-> Unbound,
            from_date |-> Unbound, end_date |-> Unbound,
            pagesearch_ui_mark |-> Unbound, dorking_ui_mark |-> Unbound,
            used_api_ui |-> Unbound, snapshotting_ui_mark |-> Unbound,
            row_count |-> -1]

\* nothing done yet for this scan
InitObs == [precheck |-> "none",        \* "true", "false", "raised": what domain_precheck did
            precheck_domain |-> Unbound, \* the domain it was called with
            spinner_starts |-> 0,
            gather_calls |-> 0,          \* calls of data_gathering
            gather_args |-> <<>>,        \* the arguments of the last one
            xlsx_calls |-> 0,            \* calls of xlsx_rc.create_report
            html_calls |-> 0,            \* calls of html_rc.report_assembling
            store_access |-> {},         \* stores read or written
            store_writes |-> {},         \* stores created or modified
            row_query |-> <<>>,          \* <<file, table>> given to get_columns_amount
            rows_at_start |-> 0,         \* rows of the report store when the scan began
            outcome |-> "pending"]       \* how the scan ended

\* the same, for a scan beginning now
NewObs == [InitObs EXCEPT !.rows_at_start = Len(report_storage)]

NoResult == [pending |-> TRUE]

\* the two instances of the program that share the working directory
Instances == {"main", "other"}

\* the report ids the user may ask to recreate
ReportIdInputs == {1, 2}

\* f'report_recreated_ID#{id_to_extract}'
extracted_folder_name(id_to_extract) == <<"r", "e", "p", "o", "r", "t", "_", "r", "e", "c", "r", "e", "a", "t", "e", "d", "_", "I", "D", "#">> \o IntToStr(id_to_extract)

\* no Recreate yet
InitRec == [pc |-> "idle",      \* "makedirs", "populate", "done"
            id |-> 0,           \* id_to_extract
            report |-> "none",  \* "recreated", "conflict" or "error"
            wrote |-> FALSE]    \* whether this call wrote into the directory

\* no directory yet
NoDirectory == [state |-> "absent",     \* "created", "partial", "complete"
                by |-> "nobody",        \* the instance whose makedirs created it
                overwritten |-> FALSE]  \* written to by a later call

\* no presence check yet
NoRsdbInit == [at |-> "none",      \* "startup" or "menu"
               present |-> FALSE,  \* what check_rsdb_presence returned
               created |-> FALSE,  \* whether db_creation was called
               rows |-> <<>>]      \* the rows of the store at that moment

\* st.cache_data holds nothing for list_reports
EmptyCache == [filled |-> FALSE, value |-> {}]

\* list_reports has not been called
NotListed == [called |-> FALSE, files |-> {}, dir |-> {}]

\* the two copies of run_streamed
Versions == {"main", "streamlit_app"}

\* what a child process does: the stream of each line it writes, in order
Scripts == UNION {[1..n -> {"stdout", "stderr"}] : n \in 0..MaxWrites}

\* run_streamed is not in use
NoStream == [version |-> "none",
             todo |-> <<>>,          \* the writes the child has still to make
             child |-> "none",       \* "running" or "exited"
             written |-> 0,          \* lines written so far; line k is the k-th
             wrote_out |-> <<>>,     \* the lines the child wrote to stdout
             wrote_err |-> <<>>,     \* the lines the child wrote to stderr
             out_pipe |-> <<>>,      \* written to stdout and not yet read
             err_pipe |-> <<>>,      \* written to stderr and not yet read
             pc |-> "none",          \* the reader: "stdout", "stderr", "poll", "returned"
             so |-> <<>>,            \* the lines read from stdout
             se |-> <<>>]            \* the lines read from stderr

\* no operation of the API manager yet
InitMgr == [op |-> "none",          \* "update" or "restore"
            id |-> Unbound,         \* api_id_to_update
            key |-> Unbound,        \* new_api_key
            report |-> "none",      \* the message printed at the end
            before |-> <<>>,        \* the credential table when the operation began
            applied |-> <<>>]       \* id -> key of the last update that changed a row

Init ==
    /\ entry \in {"cli", "headless", "api_manager", "report_manager", "streamed",
                 "dashboard"}
    /\ pc = IF entry \in {"headless", "dashboard"} THEN "h_idle"
            ELSE IF entry = "report_manager" THEN "startup"
            ELSE IF entry = "streamed" THEN "dashboard" ELSE "menu"
    /\ scans = 0
    /\ RICH_AVAILABLE \in (IF entry \in {"cli", "headless"} THEN BOOLEAN ELSE {TRUE})
    /\ misc_available \in (IF entry \in {"cli", "headless"} THEN BOOLEAN ELSE {TRUE})
    /\ loc = InitLoc
    /\ spinner_thread = "none"
    /\ obs = InitObs
    /\ result = NoResult
    /\ dork_store = DorkStore
    /\ api_db \in (IF entry = "api_manager" THEN {"complete", "absent"} ELSE {"complete"})
    /\ api_keys = IF api_db = "complete" THEN ApiKeys ELSE <<>>
    /\ api_reference \in (IF entry = "api_manager" THEN BOOLEAN ELSE {TRUE})
    /\ seen = [db |-> "none", during |-> "none", before |-> "none"]
    /\ mgr = InitMgr
    /\ rsdb_present \in (IF entry = "report_manager" THEN BOOLEAN ELSE {TRUE})
    /\ rsdb_init = NoRsdbInit
    /\ report_storage \in (IF entry = "report_manager" /\ rsdb_present
                           THEN {<<>>, StoredReports} ELSE {<<>>})
    /\ recreated = [d \in {extracted_folder_name(id) : id \in ReportIdInputs} |->
                       NoDirectory]
    /\ rec = [p \in Instances |-> InitRec]
    /\ reports_dir = {}
    /\ st_cache = EmptyCache
    /\ listed = NotListed
    /\ stream \in (IF entry = "streamed"
                   THEN {[NoStream EXCEPT !.version = v, !.todo = s,
                                          !.child = "running", !.pc = "stdout"] :
                            v \in Versions, s \in Scripts}
                   ELSE {NoStream})

(***************************************************************************)
(* The collaborators of the orchestrator, by their interface.              *)
(***************************************************************************)
\* get_columns_amount(path, table): the row count, or -1 for the failure of
\* the lookup when the file holds no such table
get_columns_amount(path, table) ==
    IF path \in DOMAIN dork_store /\ table \in DOMAIN dork_store[path]
    THEN dork_store[path][table]
    ELSE -1

\* db.check_api_keys(ids): at least one requested identifier is valid
check_api_keys(ids) ==
    \E i \in 1..Len(ids) : Validate(api_keys, ids[i]) = "valid"

\* the stores data_gathering reads for the sources its flags enable
GatherStores(dorking, apis) ==
    (IF dorking = <<"n">> THEN {} ELSE {"dorks"})
    \cup (IF apis = <<<<"E", "m", "p", "t", "y">>>> THEN {} ELSE {"api_keys"})

\* what a renderer leaves behind: the artifact in reports/ and a row of the
\* report store
RenderedFile(l) == [domain |-> l.short_domain, format |-> l.report_filetype]
SavedRow(l) == [domain |-> l.short_domain, case_comment |-> l.case_comment,
                format |-> l.report_filetype]

(***************************************************************************)
(* process_report                                                          *)
(***************************************************************************)
\* mutant: the finally clause without its try/except: a None spinner raises
StopSpinner_Unguarded(sp) == IF sp = "none" THEN "AttributeError" ELSE "stopped"

\* the finally clause: spinner_thread.do_run = False; spinner_thread.join(),
\* with the AttributeError of a None spinner swallowed
StopSpinner(sp) == IF sp = "none" THEN "none" ELSE "stopped"

\* the finally clause of run_headless_scan: under `if spinner_thread:` the
\* spinner is stopped and joined again; joining a thread that has ended
\* returns at once
HeadlessFinally(sp) == IF sp \in {"running", "stopped"} THEN "stopped" ELSE sp

\* the finally clauses an exit from process_report runs through
Finally(sp) ==
    IF entry = "cli" THEN StopSpinner(sp) ELSE HeadlessFinally(StopSpinner(sp))

\* mutant: no except clause around the body of run_headless_scan
HeadlessExcept_Escapes(msg) ==
    /\ pc' = "crashed"
    /\ UNCHANGED result

\* an exception leaves run_headless_scan's try block: the except clause
\* turns it into the failure dict
HeadlessExcept(msg) ==
    /\ pc' = "h_done"
    /\ result' = [success |-> FALSE, message |-> msg, report_files |-> {},
                  trace |-> msg]

\* an exception other than KeyboardInterrupt leaves run(): the program ends
CliExcept ==
    /\ pc' = "crashed"
    /\ UNCHANGED result

\* an exception raised inside process_report, after its finally clause
Propagate(msg) ==
    IF entry = "cli" THEN CliExcept ELSE HeadlessExcept(msg)

\* mutant: the dorking flag is handed on as it was typed
GatherArgs_FlagAsTyped(l) ==
    [report_filetype |-> Lower(l.report_filetype),
     pagesearch_flag |-> Lower(l.pagesearch_flag),
     keywords_list   |-> IF l.pagesearch_flag \in {<<"y">>, <<"s", "i">>}
                         THEN l.keywords_list ELSE <<>>,
     keywords_flag   |-> l.keywords_flag,
     dorking_flag    |-> l.dorking_flag,
     used_api_flag   |-> l.used_api_flag,
     snapshotting_flag |-> l.snapshotting_flag,
     from_date |-> l.from_date,
     end_date  |-> l.end_date]

\* the arguments process_report hands to data_gathering
GatherArgs(l) ==
    [report_filetype |-> Lower(l.report_filetype),
     pagesearch_flag |-> Lower(l.pagesearch_flag),
     keywords_list   |-> IF l.pagesearch_flag \in {<<"y">>, <<"s", "i">>}
                         THEN l.keywords_list ELSE <<>>,
     keywords_flag   |-> l.keywords_flag,
     dorking_flag    |-> Lower(l.dorking_flag),
     used_api_flag   |-> l.used_api_flag,
     snapshotting_flag |-> l.snapshotting_flag,
     from_date |-> l.from_date,
     end_date  |-> l.end_date]

\* data_gathering is called; it returns or raises
PR_Gather ==
    /\ pc = "gather"
    /\ \E outcome \in {"ok", "raise"} :
         LET args == GatherArgs(loc)
             o1 == [obs EXCEPT !.gather_calls = @ + 1,
                               !.gather_args = args,
                               !.store_access = @ \cup GatherStores(args.dorking_flag,
                                                                   args.used_api_flag)]
         IN  IF outcome = "ok"
             THEN /\ pc' = "render"
                  /\ obs' = o1
                  /\ UNCHANGED <<spinner_thread, result>>
             ELSE /\ spinner_thread' = Finally(spinner_thread)
                  /\ obs' = [o1 EXCEPT !.outcome = "raised"]
                  /\ Propagate("data gathering failed")
    /\ UNCHANGED <<env, scans, loc, report_storage, reports_dir>>

\* which renderer process_report calls for a report_filetype
Renderer(report_filetype) ==
    IF report_filetype = <<"x", "l", "s", "x">> THEN "xlsx"
    ELSE IF report_filetype = <<"h", "t", "m", "l">> THEN "html"
    ELSE "none"

\* process_report returned normally to run(): next round of the domain loop
CliReturn ==
    /\ pc' = "domain"
    /\ UNCHANGED result

\* process_report returned normally to run_headless_scan: the reports of the
\* domain are collected and success is returned
CollectReports(dir, short_domain) ==
    {f \in dir : StartsWith(f.domain, short_domain)}

HeadlessReturn(dir) ==
    /\ pc' = "h_done"
    /\ result' = [success |-> TRUE, message |-> "Scan finished",
                  report_files |-> CollectReports(dir, loc.short_domain)]

\* the renderer chosen by report_filetype is called, if any; it returns or
\* raises; then the finally clause and the return to the caller
PR_Render ==
    /\ pc = "render"
    /\ \E outcome \in {"ok", "raise"} :
         LET r  == Renderer(loc.report_filetype)
             o1 == [obs EXCEPT !.xlsx_calls = IF r = "xlsx" THEN @ + 1 ELSE @,
                               !.html_calls = IF r = "html" THEN @ + 1 ELSE @]
         IN  /\ spinner_thread' = Finally(spinner_thread)
             /\ IF r # "none" /\ outcome = "raise"
                THEN /\ obs' = [o1 EXCEPT !.outcome = "raised"]
                     /\ UNCHANGED <<report_storage, reports_dir>>
                     /\ Propagate("report rendering failed")
                ELSE LET dir == IF r = "none" THEN reports_dir
                                ELSE reports_dir \cup {RenderedFile(loc)}
                     IN  /\ reports_dir' = dir
                         /\ report_storage' = IF r = "none" THEN report_storage
                                              ELSE Append(report_storage, SavedRow(loc))
                         /\ obs' = [o1 EXCEPT
                                      !.outcome = "finished",
                                      !.store_access = IF r = "none" THEN @
                                                       ELSE @ \cup {"report_storage"},
                                      !.store_writes = IF r = "none" THEN @
                                                       ELSE @ \cup {"report_storage"}]
                         /\ IF entry = "cli" THEN CliReturn ELSE HeadlessReturn(dir)
    /\ UNCHANGED <<env, scans, loc>>

(***************************************************************************)
(* run_headless_scan                                                       *)
(***************************************************************************)
\* the arguments the dashboard may pass
HeadlessDomains == {<<>>, <<"l", "o", "c", "a", "l", "h", "o", "s", "t">>, <<"a", ".", "i", "o">>}
HeadlessFiletypes == {<<"h", "t", "m", "l">>, <<"H", "T", "M", "L">>, <<"x", "l", "s", "x">>, <<"p", "d", "f">>}
HeadlessPagesearch == {[flag |-> <<"n">>, keywords |-> NoneList],
                       [flag |-> <<"y">>, keywords |-> <<<<"k">>, <<"j">>>>],
                       [flag |-> <<"Y">>, keywords |-> <<<<"k">>, <<"j">>>>],
                       [flag |-> None, keywords |-> NoneList]}
HeadlessDorking == {<<"n">>, <<"N">>, <<"i", "o", "t">>, <<"b", "o", "g", "u", "s">>}
HeadlessApis == {NoneList, <<<<"1">>>>, <<<<"2">>, <<"9">>>>}
HeadlessSnapshots == {[flag |-> <<"n">>, from_date |-> None, end_date |-> None],
                      [flag |-> <<"w">>, from_date |-> None, end_date |-> None],
                      [flag |-> <<"w">>, from_date |-> <<"2", "0", "2", "1", "0", "1", "0", "1">>, end_date |-> <<"2", "0", "2", "0", "0", "1", "0", "1">>],
                      [flag |-> <<"x">>, from_date |-> None, end_date |-> None]}

\* mutant: only the empty domain is refused
InvalidDomain_EmptyOnly(short_domain) ==
    short_domain = <<>>

\* not short_domain or "." not in short_domain
InvalidDomain(short_domain) ==
    short_domain = <<>> \/ ~HasChar(short_domain, ".")

\* the requests the model tries: every combination for a well-formed
\* domain, the report type and API selection varied for the others
Request(d, ft, ps, df, api, sn) ==
    [InitLoc EXCEPT !.short_domain = d,
                    !.report_filetype = ft,
                    !.pagesearch_flag = ps.flag,
                    !.keywords_list = ps.keywords,
                    !.dorking_flag = df,
                    !.used_api_flag = api,
                    !.username = None,
                    !.snapshotting_flag = sn.flag,
                    !.from_date = sn.from_date,
                    !.end_date = sn.end_date]

HeadlessRequests ==
    {Request(d, ft, ps, df, api, sn) :
        d \in {<<"a", ".", "i", "o">>}, ft \in HeadlessFiletypes, ps \in HeadlessPagesearch,
        df \in HeadlessDorking, api \in HeadlessApis, sn \in HeadlessSnapshots}
    \cup
    {Request(d, ft, [flag |-> <<"n">>, keywords |-> NoneList], <<"n">>, api,
             [flag |-> <<"n">>, from_date |-> None, end_date |-> None]) :
        d \in HeadlessDomains, ft \in HeadlessFiletypes, api \in HeadlessApis}

\* the call the dashboard of main.py makes: every flag is fixed, the domain
\* is what was typed
DashboardRequests ==
    {Request(d, <<"h", "t", "m", "l">>, [flag |-> <<"n">>, keywords |-> NoneList], <<"n">>, <<<<"E", "m", "p", "t", "y">>>>,
             [flag |-> <<"n">>, from_date |-> None, end_date |-> None]) :
        d \in HeadlessDomains}

\* the requests of a session
Requests == IF entry = "dashboard" THEN DashboardRequests ELSE HeadlessRequests

\* the call, up to the check of the domain
H_Call ==
    /\ pc = "h_idle"
    /\ scans < MaxScans
    /\ \E request \in Requests :
         /\ loc' = request
         /\ IF InvalidDomain(request.short_domain)
            THEN /\ pc' = "h_done"
                 /\ obs' = [NewObs EXCEPT !.outcome = "rejected"]
                 /\ result' = [success |-> FALSE, message |-> "Invalid domain provided",
                               report_files |-> {}]
            ELSE /\ pc' = "h_precheck"
                 /\ obs' = NewObs
                 /\ result' = NoResult
    /\ scans' = scans + 1
    /\ spinner_thread' = "none"
    /\ UNCHANGED <<env, report_storage, reports_dir>>

\* mutant: the result of the precheck is logged and not acted upon
H_Precheck_ResultIgnored ==
    /\ pc = "h_precheck"
    /\ IF ~misc_available
       THEN /\ pc' = "h_start"
            /\ UNCHANGED <<obs, result>>
       ELSE \E outcome \in {"true", "false", "raised"} :
              /\ obs' = [obs EXCEPT !.precheck = outcome,
                                    !.precheck_domain = loc.short_domain]
              /\ pc' = "h_start"
              /\ UNCHANGED result
    /\ UNCHANGED <<env, scans, loc, spinner_thread, report_storage, reports_dir>>

\* the import of domain_precheck and, when it is there, the precheck
H_Precheck ==
    /\ pc = "h_precheck"
    /\ IF ~misc_available
       THEN /\ pc' = "h_start"
            /\ UNCHANGED <<obs, result>>
       ELSE \E outcome \in {"true", "false", "raised"} :
              /\ obs' = [obs EXCEPT !.precheck = outcome,
                                    !.precheck_domain = loc.short_domain,
                                    !.outcome = IF outcome = "false"
                                                THEN "unreachable" ELSE @]
              /\ IF outcome = "false"
                 THEN /\ pc' = "h_done"
                      /\ result' = [success |-> FALSE,
                                    message |-> "Domain precheck failed (not reachable)",
                                    report_files |-> {}]
                 ELSE /\ pc' = "h_start"
                      /\ UNCHANGED result
    /\ UNCHANGED <<env, scans, loc, spinner_thread, report_storage, reports_dir>>

\* a falsy list: None or []
Falsy(xs) == xs = NoneList \/ xs = <<>>

\* the flags are normalized, the spinner started when rich is there, and
\* the arguments of process_report evaluated
H_Start ==
    /\ pc = "h_start"
    /\ LET sp == IF RICH_AVAILABLE THEN "running" ELSE "none"
           o1 == [obs EXCEPT !.spinner_starts = IF RICH_AVAILABLE THEN @ + 1 ELSE @]
           l1 == [loc EXCEPT
                    !.keywords_flag = IF Falsy(loc.keywords_list) THEN 0 ELSE 1,
                    !.used_api_flag = IF Falsy(@) THEN <<<<"E", "m", "p", "t", "y">>>> ELSE @,
                    !.from_date = IF @ = None THEN <<"N">> ELSE @,
                    !.end_date = IF @ = None THEN <<"N">> ELSE @]
       IN  IF loc.pagesearch_flag = None \/ loc.snapshotting_flag = None
           THEN \* None.lower(): AttributeError
                /\ loc' = l1
                /\ spinner_thread' = HeadlessFinally(sp)
                /\ obs' = [o1 EXCEPT !.outcome = "raised"]
                /\ HeadlessExcept("'NoneType' object has no attribute 'lower'")
           ELSE /\ loc' = [l1 EXCEPT
                             !.url = <<"h", "t", "t", "p", ":", "/", "/">> \o loc.short_domain \o <<"/">>,
                             !.case_comment = <<>>,
                             !.pagesearch_ui_mark =
                                 IF Lower(loc.pagesearch_flag) = <<"y">> THEN <<"Y", "e", "s">> ELSE <<"N", "o">>,
                             !.snapshotting_ui_mark =
                                 IF Lower(loc.snapshotting_flag) # <<"n">> THEN <<"Y", "e", "s">> ELSE <<"N", "o">>]
                /\ spinner_thread' = sp
                /\ obs' = o1
                /\ pc' = "gather"
                /\ UNCHANGED result
    /\ UNCHANGED <<env, scans, report_storage, reports_dir>>

\* the caller has the returned dict; the frame of the call is gone
H_Return ==
    /\ pc = "h_done"
    /\ pc' = "h_idle"
    /\ loc' = InitLoc
    /\ obs' = NewObs
    /\ result' = NoResult
    /\ spinner_thread' = "none"
    /\ UNCHANGED <<env, scans, report_storage, reports_dir>>


(***************************************************************************)
(* run(), menu choice 1: the interactive scan                              *)
(***************************************************************************)
\* what the user may type at each prompt
\* a session of the model is spent in one part of the main menu
MenuChoices == IF entry = "api_manager" THEN {<<"5">>, <<"7">>}
               ELSE IF entry = "report_manager" THEN {<<"4">>, <<"7">>}
               ELSE {<<"1">>, <<"7">>, <<"0">>}
DbMenuInputs == {<<"1">>, <<"2">>, <<"3">>}
ApiMenuInputs == {<<"1">>, <<"2">>, <<"3">>}
ApiUpdateIds == {<<"1">>, <<"2">>, <<"9">>}
NewKeyInputs == {<<"N", "E", "W">>, <<"K", "2">>}
DomainInputs == {<<>>, <<"b", "a", "c", "k">>, <<"l", "o", "c", "a", "l", "h", "o", "s", "t">>, <<"a", ".", "i", "o">>}
CaseComments == {<<"c", "a", "s", "e">>}
FiletypeInputs == {<<>>, <<"h", "t", "m", "l">>, <<"H", "T", "M", "L">>, <<"x", "l", "s", "x">>, <<"p", "d", "f">>}
PagesearchInputs == {<<"y">>, <<"Y">>, <<"n">>, <<"x">>}
KeywordsInputs == {<<>>, <<"n">>, <<"k", ",", " ", "j">>}
DorkingInputs == {<<"n">>, <<"N">>, <<"b", "a", "s", "i", "c">>, <<"I", "o", "T">>, <<"f", "i", "l", "e", "s">>, <<"a", "d", "m", "i", "n", "s">>, <<"w", "e", "b">>, <<"c", "u", "s", "t", "o", "m">>, <<"b", "o", "g", "u", "s">>}
ApiInputs == {<<"y">>, <<"n">>, <<"x">>}
ApiIdInputs == {<<"3", ",", " ", "2">>, <<"2", ",", " ", "9">>}
UsernameInputs == {<<"N">>}
SnapshotInputs == {<<"s">>, <<"p">>, <<"W">>, <<"n">>, <<"x">>}
CustomNameInputs == {<<"m", "i", "n", "e">>, <<"n", "o", "p", "e">>}
DateInputs == {[from_date |-> <<"2", "0", "2", "0", "0", "1", "0", "1">>, end_date |-> <<"2", "0", "2", "1", "0", "1", "0", "1">>],
               [from_date |-> <<"2", "0", "2", "1", "0", "1", "0", "1">>, end_date |-> <<"2", "0", "2", "0", "0", "1", "0", "1">>],
               [from_date |-> <<>>, end_date |-> <<>>]}

\* break out of the domain loop: back at the main menu
Break(reason) ==
    /\ pc' = "menu"
    /\ obs' = [obs EXCEPT !.outcome = reason]

\* mutant: db_creation is called whatever the presence check returned
RsdbCheck_AlwaysCreate(at) ==
    /\ rsdb_init' = [at |-> at, present |-> rsdb_present, created |-> TRUE,
                     rows |-> report_storage]
    /\ rsdb_present' = TRUE
    /\ report_storage' = <<>>

\* db.check_rsdb_presence('report_storage.db'), and db.db_creation when it
\* returned false: an empty store is created
RsdbCheck(at) ==
    /\ rsdb_init' = [at |-> at, present |-> rsdb_present, created |-> ~rsdb_present,
                     rows |-> report_storage]
    /\ rsdb_present' = TRUE
    /\ report_storage' = IF rsdb_present THEN report_storage ELSE <<>>

\* the module is loaded: the report store is checked before run() begins
Startup ==
    /\ pc = "startup"
    /\ RsdbCheck("startup")
    /\ pc' = "menu"
    /\ UNCHANGED <<imports, stream, st_cache, listed, api_files, mgr, recreations, scans, loc, spinner_thread,
                   obs, result, reports_dir>>

\* the main menu: 1 starts the scan dialogue, 4 checks the report store and
\* opens its menu, 5 opens the API manager, 7 ends the program, anything
\* that is no menu item is refused; what the last dialogue left in the
\* locals is never read again
MainMenu ==
    /\ pc = "menu"
    /\ \E choice \in MenuChoices :
       /\ IF choice = <<"1">>
          THEN \* from misc import domain_precheck
               IF misc_available THEN pc' = "domain" ELSE pc' = "crashed"
          ELSE IF choice = <<"4">>
          THEN pc' = "db_choice"
          ELSE IF choice = <<"5">>
          THEN pc' = "api_choice"
          ELSE IF choice = <<"7">>
          THEN pc' = "exited"
          ELSE pc' = "menu"
       /\ IF choice = <<"4">>
          THEN RsdbCheck("menu")
          ELSE UNCHANGED <<rsdb_present, rsdb_init, report_storage>>
    /\ loc' = InitLoc
    /\ obs' = [InitObs EXCEPT !.rows_at_start = Len(report_storage')]
    /\ spinner_thread' = "none"
    /\ mgr' = [InitMgr EXCEPT !.applied = mgr.applied]
    /\ UNCHANGED <<imports, stream, st_cache, listed, api_files, recreations, scans, result, reports_dir>>

\* the domain prompt: a new round of the loop, which binds every local it
\* reads anew
CliDomain ==
    /\ pc = "domain"
    /\ \E d \in DomainInputs :
         IF Lower(d) = <<"b", "a", "c", "k">>
         THEN /\ pc' = "menu"
              /\ loc' = InitLoc
              /\ UNCHANGED scans
         ELSE IF d = <<>> \/ ~MatchesDomain(d)
         THEN /\ pc' = "domain"
              /\ loc' = InitLoc
              /\ UNCHANGED scans
         ELSE /\ scans < MaxScans
              /\ scans' = scans + 1
              /\ loc' = [InitLoc EXCEPT !.short_domain = d,
                                        !.url = <<"h", "t", "t", "p", ":", "/", "/">> \o d \o <<"/">>]
              /\ pc' = "precheck"
    /\ obs' = NewObs
    /\ spinner_thread' = "none"
    /\ UNCHANGED <<env, result, report_storage, reports_dir>>

\* mutant: the break after the failed precheck is missing
CliPrecheck_NoBreak ==
    /\ pc = "precheck"
    /\ \E outcome \in {"true", "false", "raised"} :
         LET o1 == [obs EXCEPT !.precheck = outcome,
                               !.precheck_domain = loc.short_domain]
         IN  IF outcome \in {"true", "false"}
             THEN /\ pc' = "filetype"
                  /\ obs' = o1
             ELSE /\ pc' = "crashed"
                  /\ obs' = [o1 EXCEPT !.outcome = "raised"]
    /\ UNCHANGED <<env, scans, loc, spinner_thread, result, report_storage, reports_dir>>

\* domain_precheck(short_domain): go on when reachable, else back to the menu
CliPrecheck ==
    /\ pc = "precheck"
    /\ \E outcome \in {"true", "false", "raised"} :
         LET o1 == [obs EXCEPT !.precheck = outcome,
                               !.precheck_domain = loc.short_domain]
         IN  IF outcome = "true"
             THEN /\ pc' = "filetype"
                  /\ obs' = o1
             ELSE IF outcome = "false"
             THEN /\ pc' = "menu"
                  /\ obs' = [o1 EXCEPT !.outcome = "unreachable"]
             ELSE /\ pc' = "crashed"
                  /\ obs' = [o1 EXCEPT !.outcome = "raised"]
    /\ UNCHANGED <<env, scans, loc, spinner_thread, result, report_storage, reports_dir>>

\* mutant: any report type is let through
FiletypeAccepted_Any(report_filetype) == TRUE

\* report_filetype.lower() in ['html', 'xlsx']
FiletypeAccepted(report_filetype) ==
    Lower(report_filetype) \in {<<"h", "t", "m", "l">>, <<"x", "l", "s", "x">>}

\* the case comment and the report file type
CliFiletype ==
    /\ pc = "filetype"
    /\ \E c \in CaseComments, ft \in FiletypeInputs :
         /\ loc' = [loc EXCEPT !.case_comment = c, !.report_filetype = ft]
         /\ IF FiletypeAccepted(ft)
            THEN /\ pc' = "pagesearch"
                 /\ UNCHANGED obs
            ELSE /\ pc' = "domain"
                 /\ obs' = [obs EXCEPT !.outcome = "rejected"]
    /\ UNCHANGED <<env, scans, spinner_thread, result, report_storage, reports_dir>>

\* the PageSearch flag
CliPagesearch ==
    /\ pc = "pagesearch"
    /\ \E ps \in PagesearchInputs :
         IF Lower(ps) = <<"y">>
         THEN /\ loc' = [loc EXCEPT !.pagesearch_flag = ps]
              /\ pc' = "keywords"
         ELSE IF Lower(ps) = <<"n">>
         THEN /\ loc' = [loc EXCEPT !.pagesearch_flag = ps,
                                    !.keywords_list = NoneList,
                                    !.keywords_flag = 0]
              /\ pc' = "dorking"
         ELSE /\ loc' = [loc EXCEPT !.pagesearch_flag = ps]
              /\ pc' = "dorking"
    /\ UNCHANGED <<env, scans, spinner_thread, obs, result, report_storage, reports_dir>>

\* the keywords of PageSearch
CliKeywords ==
    /\ pc = "keywords"
    /\ \E kw \in KeywordsInputs :
         IF Lower(kw) # <<"n">>
         THEN IF Len(Lower(kw)) > 0
              THEN /\ loc' = [loc EXCEPT !.keywords_list = SplitStrip(kw),
                                         !.keywords_flag = 1]
                   /\ pc' = "dorking"
                   /\ UNCHANGED obs
              ELSE /\ Break("rejected")
                   /\ UNCHANGED loc
         ELSE /\ loc' = [loc EXCEPT !.keywords_list = NoneList,
                                    !.keywords_flag = 0]
              /\ pc' = "dorking"
              /\ UNCHANGED obs
    /\ UNCHANGED <<env, scans, spinner_thread, result, report_storage, reports_dir>>

\* the dorking mode, taken as typed
CliDorking ==
    /\ pc = "dorking"
    /\ \E df \in DorkingInputs :
         loc' = [loc EXCEPT !.dorking_flag = df]
    /\ pc' = "api"
    /\ UNCHANGED <<env, scans, spinner_thread, obs, result, report_storage, reports_dir>>

\* the API mode; 'y' lists the credential table
CliApi ==
    /\ pc = "api"
    /\ \E af \in ApiInputs :
         IF Lower(af) = <<"y">>
         THEN /\ obs' = [obs EXCEPT !.store_access = @ \cup {"api_keys"}]
              /\ pc' = "apiids"
              /\ loc' = [loc EXCEPT !.api_flag = af]
         ELSE IF Lower(af) = <<"n">>
         THEN /\ loc' = [loc EXCEPT !.api_flag = af,
                                    !.used_api_ui = <<"N", "o">>,
                                    !.used_api_flag = <<<<"E", "m", "p", "t", "y">>>>,
                                    !.username = None]
              /\ pc' = "snapshot"
              /\ UNCHANGED obs
         ELSE /\ Break("rejected")
              /\ loc' = [loc EXCEPT !.api_flag = af]
    /\ UNCHANGED <<env, scans, spinner_thread, result, report_storage, reports_dir>>

\* the API identifiers, the username for API 3, and the check of the keys
CliApiIds ==
    /\ pc = "apiids"
    /\ \E ids \in ApiIdInputs, name \in UsernameInputs :
         LET used == SplitStrip(ids)
         IN  /\ loc' = [loc EXCEPT
                          !.used_api_flag = used,
                          !.username = IF InList(<<"3">>, used) THEN name ELSE None,
                          !.used_api_ui = IF check_api_keys(used)
                                          THEN <<"Y", "e", "s", ",", " ", "u", "s", "i", "n", "g", " ", "A", "P", "I", "s", " ", "w", "i", "t", "h", " ", "f", "o", "l", "l", "o", "w", "i", "n", "g", " ", "I", "D", "s", ":", " ">>
                                               \o JoinComma(used)
                                          ELSE @]
             /\ IF check_api_keys(used)
                THEN /\ pc' = "snapshot"
                     /\ UNCHANGED obs
                ELSE Break("no usable credential")
    /\ UNCHANGED <<env, scans, spinner_thread, result, report_storage, reports_dir>>

\* the page-search mark of the summary
PagesearchMark(l) ==
    IF Lower(l.pagesearch_flag) = <<"n">> THEN <<"N", "o">>
    ELSE IF Lower(l.pagesearch_flag) = <<"y">> /\ l.keywords_flag = 1
    THEN <<"Y", "e", "s", ",", " ", "w", "i", "t", "h", " ">> \o ListRepr(l.keywords_list) \o <<" ", "k", "e", "y", "w", "o", "r", "d", "s", " ", "s", "e", "a", "r", "c", "h">>
    ELSE <<"Y", "e", "s", ",", " ", "w", "i", "t", "h", "o", "u", "t", " ", "k", "e", "y", "w", "o", "r", "d", "s", " ", "s", "e", "a", "r", "c", "h">>

\* the file of a fixed category, as run() looks it up
db_name(c) ==
    CASE c = <<"b", "a", "s", "i", "c">>  -> <<"b", "a", "s", "i", "c", "_", "d", "o", "r", "k", "i", "n", "g", ".", "d", "b">>
      [] c = <<"i", "o", "t">>    -> <<"i", "o", "t", "_", "d", "o", "r", "k", "i", "n", "g", ".", "d", "b">>
      [] c = <<"f", "i", "l", "e", "s">>  -> <<"f", "i", "l", "e", "s", "_", "d", "o", "r", "k", "i", "n", "g", ".", "d", "b">>
      [] c = <<"a", "d", "m", "i", "n", "s">> -> <<"a", "d", "m", "i", "n", "p", "a", "n", "e", "l", "s", "_", "d", "o", "r", "k", "i", "n", "g", ".", "d", "b">>
      [] c = <<"w", "e", "b">>    -> <<"w", "e", "b", "s", "t", "r", "u", "c", "t", "u", "r", "e", "_", "d", "o", "r", "k", "i", "n", "g", ".", "d", "b">>

\* the <<file, table>> run() counts the rows of, for a fixed category
DorkQuery(dorking_flag) ==
    <<<<"d", "o", "r", "k", "i", "n", "g", "/", "/">> \o db_name(Lower(dorking_flag)),
      Lower(dorking_flag) \o <<"_", "d", "o", "r", "k", "s">>>>

\* the dorking mark of a fixed category
DorkingMark(dorking_flag, row_count) ==
    <<"Y", "e", "s", ",", " ">> \o ReplaceChar(Lower(dorking_flag), "_", " ") \o <<" ", "d", "o", "r", "k", "i", "n", "g", " ", "(">>
        \o IntToStr(row_count) \o <<" ", "d", "o", "r", "k", "s", ")">>

\* the <<file, table>> counted for a custom collection
CustomQuery(custom_db_name) ==
    <<<<"d", "o", "r", "k", "i", "n", "g", "/", "/">> \o custom_db_name \o <<".", "d", "b">>, <<"d", "o", "r", "k", "s">>>>

\* the dorking mark of a custom collection
CustomMark(row_count) ==
    <<"Y", "e", "s", ",", " ", "C", "u", "s", "t", "o", "m", " ", "t", "a", "b", "l", "e", " ", "d", "o", "r", "k", "i", "n", "g", " ", "(">> \o IntToStr(row_count) \o <<" ", "d", "o", "r", "k", "s", ")">>

\* the summary is printed, the spinner started and process_report called
StartScan(l, o) ==
    /\ loc' = l
    /\ spinner_thread' = "running"
    /\ obs' = [o EXCEPT !.spinner_starts = @ + 1]
    /\ pc' = IF FiletypeAccepted(l.report_filetype) THEN "gather" ELSE "domain"

\* the snapshotting mode is checked; Wayback asks for the two dates first
SnapshotStage(l, o) ==
    LET sf == Lower(l.snapshotting_flag)
    IN  IF sf \notin {<<"s">>, <<"p">>, <<"w">>, <<"n">>}
        THEN /\ loc' = l
             /\ pc' = "menu"
             /\ obs' = [o EXCEPT !.outcome = "rejected"]
             /\ UNCHANGED spinner_thread
        ELSE LET l1 == [l EXCEPT
                          !.from_date = <<"N">>,
                          !.end_date = <<"N">>,
                          !.snapshotting_ui_mark =
                              IF sf = <<"s">>
                              THEN <<"Y", "e", "s", ",", " ", "d", "o", "m", "a", "i", "n", "'", "s", " ", "m", "a", "i", "n", " ", "p", "a", "g", "e", " ", "s", "n", "a", "p", "s", "h", "o", "t", "t", "i", "n", "g", " ", "a", "s", " ", "a", " ", "s", "c", "r", "e", "e", "n", "s", "h", "o", "t">>
                              ELSE IF sf = <<"p">>
                              THEN <<"Y", "e", "s", ",", " ", "d", "o", "m", "a", "i", "n", "'", "s", " ", "m", "a", "i", "n", " ", "p", "a", "g", "e", " ", "s", "n", "a", "p", "s", "h", "o", "t", "t", "i", "n", "g", " ", "a", "s", " ", "a", " ", ".", "H", "T", "M", "L", " ", "f", "i", "l", "e">>
                              ELSE <<"N", "o">>]
             IN  IF sf = <<"w">>
                 THEN /\ loc' = l1
                      /\ pc' = "dates"
                      /\ obs' = o
                      /\ UNCHANGED spinner_thread
                 ELSE StartScan(l1, o)

\* mutant: a failed lookup is taken for an empty collection
CountRows_FailureIgnored(l, o, query, custom_db_name) ==
    LET n  == get_columns_amount(query[1], query[2])
        m  == IF n < 0 THEN 0 ELSE n
        o1 == [o EXCEPT !.row_query = query,
                        !.store_access = @ \cup {"dorks"}]
    IN  SnapshotStage(
            [l EXCEPT !.row_count = m,
                      !.dorking_ui_mark = IF custom_db_name # None THEN CustomMark(m)
                                          ELSE DorkingMark(l.dorking_flag, m),
                      !.dorking_flag = IF custom_db_name # None
                                       THEN Lower(@) \o <<"+">> \o custom_db_name \o <<".", "d", "b">>
                                       ELSE @],
            o1)

\* the row count of a collection is looked up (custom_db_name is None for a
\* fixed category); a failed lookup raises out of run(), a successful one
\* gives the mark
CountRows(l, o, query, custom_db_name) ==
    LET n  == get_columns_amount(query[1], query[2])
        o1 == [o EXCEPT !.row_query = query,
                        !.store_access = @ \cup {"dorks"}]
    IN  IF n < 0
        THEN /\ loc' = l
             /\ obs' = [o1 EXCEPT !.outcome = "raised"]
             /\ pc' = "crashed"
             /\ UNCHANGED spinner_thread
        ELSE SnapshotStage(
                 [l EXCEPT !.row_count = n,
                           !.dorking_ui_mark = IF custom_db_name # None THEN CustomMark(n)
                                               ELSE DorkingMark(l.dorking_flag, n),
                           !.dorking_flag = IF custom_db_name # None
                                            THEN Lower(@) \o <<"+">> \o custom_db_name \o <<".", "d", "b">>
                                            ELSE @],
                 o1)

\* the snapshotting mode is read; then the marks are built and the dorking
\* mode checked, for an accepted PageSearch flag
CliSnapshot ==
    /\ pc = "snapshot"
    /\ \E sf \in SnapshotInputs :
         LET l0 == [loc EXCEPT !.snapshotting_flag = sf]
             df == Lower(loc.dorking_flag)
         IN  IF Lower(loc.pagesearch_flag) \notin {<<"y">>, <<"n">>}
             THEN /\ loc' = l0
                  /\ pc' = "domain"
                  /\ obs' = [obs EXCEPT !.outcome = "rejected"]
                  /\ UNCHANGED spinner_thread
             ELSE LET l1 == [l0 EXCEPT !.pagesearch_ui_mark = PagesearchMark(l0)]
                      l2 == [l1 EXCEPT !.dorking_ui_mark = <<"N", "o">>]
                  IN  IF df \notin FixedCategories \cup {<<"n">>, <<"c", "u", "s", "t", "o", "m">>}
                      THEN /\ loc' = l1
                           /\ pc' = "menu"
                           /\ obs' = [obs EXCEPT !.outcome = "rejected"]
                           /\ UNCHANGED spinner_thread
                      ELSE IF df \in FixedCategories
                      THEN CountRows(l2, obs, DorkQuery(loc.dorking_flag), None)
                      ELSE IF df = <<"c", "u", "s", "t", "o", "m">>
                      THEN /\ loc' = l2
                           /\ pc' = "customname"
                           /\ UNCHANGED <<obs, spinner_thread>>
                      ELSE SnapshotStage(l2, obs)
    /\ UNCHANGED <<env, scans, result, report_storage, reports_dir>>

\* the name of the custom collection
CliCustomName ==
    /\ pc = "customname"
    /\ \E custom_db_name \in CustomNameInputs :
         CountRows(loc, obs, CustomQuery(custom_db_name), custom_db_name)
    /\ UNCHANGED <<env, scans, result, report_storage, reports_dir>>

\* the two dates of the Wayback range
CliDates ==
    /\ pc = "dates"
    /\ \E d \in DateInputs :
         StartScan([loc EXCEPT
                      !.from_date = d.from_date,
                      !.end_date = d.end_date,
                      !.snapshotting_ui_mark =
                          <<"Y", "e", "s", ",", " ", "d", "o", "m", "a", "i", "n", "'", "s", " ", "m", "a", "i", "n", " ", "p", "a", "g", "e", " ", "s", "n", "a", "p", "s", "h", "o", "t", "t", "i", "n", "g", " ", "u", "s", "i", "n", "g", " ", "W", "a", "y", "b", "a", "c", "k", " ", "M", "a", "c", "h", "i", "n", "e">>],
                   obs)
    /\ UNCHANGED <<env, scans, result, report_storage, reports_dir>>

Cli == \/ MainMenu
       \/ CliDomain
       \/ CliPrecheck
       \/ CliFiletype
       \/ CliPagesearch
       \/ CliKeywords
       \/ CliDorking
       \/ CliApi
       \/ CliApiIds
       \/ CliSnapshot
       \/ CliCustomName
       \/ CliDates

(***************************************************************************)
(* run(), menu choice 5: the API manager                                   *)
(***************************************************************************)
\* mutant: UPDATE api_keys SET api_key = ? without the WHERE clause
SqlUpdate_NoWhere(keys, id, key) ==
    [i \in DOMAIN keys |-> key]

\* UPDATE api_keys SET api_key = ? WHERE id = ?: the rows whose id matches
\* get the key; no row is added or removed
SqlUpdate(keys, id, key) ==
    [i \in DOMAIN keys |-> IF i = id THEN key ELSE keys[i]]

\* the choice of the API manager: 1 lists the keys and opens the table for
\* an update, 2 deletes the working file before the reference is copied
\* over it, anything else goes back to the main menu
ApiChoice ==
    /\ pc = "api_choice"
    /\ \E choice_api \in ApiMenuInputs :
         IF choice_api = <<"1">>
         THEN /\ mgr' = [mgr EXCEPT !.op = "update", !.before = api_keys]
              /\ \/ pc' = "api_update"
                 \/ /\ api_db # "complete"
                    /\ pc' = "crashed"
              /\ UNCHANGED <<api_keys, api_db>>
         ELSE IF choice_api = <<"2">>
         THEN /\ mgr' = [mgr EXCEPT !.op = "restore", !.before = api_keys,
                                     !.applied = <<>>]
              /\ api_db' = "absent"
              /\ api_keys' = <<>>
              /\ pc' = "restore_copy"
         ELSE /\ pc' = "menu"
              /\ UNCHANGED <<mgr, api_keys, api_db>>
    /\ UNCHANGED <<imports, stream, st_cache, listed, api_reference, seen, scans, loc, spinner_thread, obs,
                   result, rsdb_present, rsdb_init, report_storage,
                   recreations, reports_dir>>

\* the identifier and the new key are read, the UPDATE executed and
\* committed; an exception of either is caught and reported
ApiUpdate ==
    /\ pc = "api_update"
    /\ \E api_id_to_update \in ApiUpdateIds, new_api_key \in NewKeyInputs,
          outcome \in {"ok", "raise"} :
         LET m1 == [mgr EXCEPT !.id = api_id_to_update, !.key = new_api_key]
         IN  IF api_db = "complete" /\ outcome = "ok"
             THEN /\ api_keys' = SqlUpdate(api_keys, api_id_to_update, new_api_key)
                  /\ mgr' = [m1 EXCEPT
                               !.report = "Successfully added new API key",
                               !.applied = IF api_id_to_update \in DOMAIN api_keys
                                           THEN [i \in DOMAIN @ \cup {api_id_to_update} |->
                                                   IF i = api_id_to_update
                                                   THEN new_api_key ELSE @[i]]
                                           ELSE @]
             ELSE /\ mgr' = [m1 EXCEPT !.report = "Something went wrong when adding new API key"]
                  /\ UNCHANGED api_keys
    /\ pc' = "menu"
    /\ UNCHANGED <<imports, stream, st_cache, listed, api_db, api_reference, seen, scans, loc, spinner_thread,
                   obs, result, rsdb_present, rsdb_init, report_storage,
                   recreations, reports_dir>>

\* mutant: the copy of the reference stops before its end
RestoreCopy_Truncated ==
    /\ pc = "restore_copying"
    /\ pc' = "menu"
    /\ mgr' = [mgr EXCEPT !.report = "Successfully restored reference API Keys DB"]
    /\ UNCHANGED <<imports, stream, st_cache, listed, api_files, scans, loc, spinner_thread, obs, result,
                   rsdb_present, rsdb_init, report_storage,
                   recreations, reports_dir>>

\* shutil.copyfile opens the reference and creates the working file; a
\* missing reference is reported and nothing is copied
RestoreOpen ==
    /\ pc = "restore_copy"
    /\ IF api_reference
       THEN /\ api_db' = "partial"
            /\ pc' = "restore_copying"
            /\ UNCHANGED mgr
       ELSE /\ mgr' = [mgr EXCEPT !.report = "Reference API Keys DB was not found"]
            /\ pc' = "menu"
            /\ UNCHANGED api_db
    /\ UNCHANGED <<imports, stream, st_cache, listed, api_keys, api_reference, seen, scans, loc, spinner_thread,
                   obs, result, rsdb_present, rsdb_init, report_storage,
                   recreations, reports_dir>>

\* shutil.copyfile has written the last block of the reference
RestoreCopy ==
    /\ pc = "restore_copying"
    /\ api_db' = "complete"
    /\ api_keys' = ApiReference
    /\ mgr' = [mgr EXCEPT !.report = "Successfully restored reference API Keys DB"]
    /\ pc' = "menu"
    /\ UNCHANGED <<imports, stream, st_cache, listed, api_reference, seen, scans, loc, spinner_thread, obs,
                   result, rsdb_present, rsdb_init, report_storage,
                   recreations, reports_dir>>

\* another instance of the program lists the keys (db.select_api_keys) while
\* the manager is at work
ReadKeys ==
    /\ entry = "api_manager"
    /\ seen' = [db |-> api_db,
                 during |-> IF pc \in {"api_update", "restore_copy", "restore_copying"}
                            THEN mgr.op ELSE "none",
                 before |-> IF mgr.before = <<>> THEN "absent" ELSE "complete"]
    /\ UNCHANGED <<imports, stream, st_cache, listed, api_keys, api_db, api_reference, mgr, pc, scans, loc,
                   spinner_thread, obs, result, rsdb_present, rsdb_init, report_storage,
                   recreations, reports_dir>>

ApiManager == ApiChoice \/ ApiUpdate \/ RestoreOpen \/ RestoreCopy \/ ReadKeys

(***************************************************************************)
(* run(), menu choice 4: the report storage                                *)
(***************************************************************************)
\* db.db_select(): whether the store holds any report
data_presence_flag == Len(report_storage) > 0

\* the instance has its answer: the main program is back at its menu
Finish(p, report, wrote) ==
    /\ rec' = [rec EXCEPT ![p] = [@ EXCEPT !.pc = "done", !.report = report,
                                           !.wrote = wrote]]
    /\ pc' = IF p = "main" THEN "menu" ELSE pc

\* what may be typed at the report id prompt
ReportIdTyped == {<<"1">>, <<"2">>, <<"x">>}

\* whether int() takes the text: decimal digits (signs, blanks and
\* underscores, which int() accepts too, are not typed here)
IsInt(text) == text # <<>> /\ \A i \in 1..Len(text) : IsDigit(text[i])

\* int() of a text of decimal digits
RECURSIVE int(_)
int(text) ==
    IF text = <<>> THEN 0
    ELSE 10 * int(SubSeq(text, 1, Len(text) - 1))
         + (CHOOSE d \in 0..9 : IntToStr(d) = <<text[Len(text)]>>)

\* the choice of the storage menu: 1 lists the reports, 2 lists them and,
\* when there are any, asks for the id of the report to recreate and turns
\* the answer into a number, anything else goes back to the main menu
DbChoice ==
    /\ pc = "db_choice"
    /\ \E choice_db \in DbMenuInputs :
         IF choice_db = <<"2">> /\ data_presence_flag
         THEN \E typed \in ReportIdTyped :
                IF IsInt(typed)
                THEN /\ rec' = [rec EXCEPT !["main"] = [InitRec EXCEPT !.pc = "makedirs",
                                                                       !.id = int(typed)]]
                     /\ pc' = "recreate"
                ELSE \* int() raises ValueError outside the try: it leaves run()
                     /\ pc' = "crashed"
                     /\ UNCHANGED rec
         ELSE /\ pc' = "menu"
              /\ UNCHANGED rec
    /\ UNCHANGED <<imports, stream, st_cache, listed, api_files, mgr, rsdb_present, rsdb_init, report_storage,
                   recreated, scans, loc, spinner_thread, obs, result, reports_dir>>

\* the other instance of the program reaches the same prompt
OtherRecreate ==
    /\ entry = "report_manager"
    /\ rec["other"].pc \in {"idle", "done"}
    /\ data_presence_flag
    /\ \E id_to_extract \in ReportIdInputs :
         rec' = [rec EXCEPT !["other"] = [InitRec EXCEPT !.pc = "makedirs",
                                                         !.id = id_to_extract]]
    /\ UNCHANGED <<imports, stream, st_cache, listed, api_files, mgr, rsdb_present, rsdb_init, report_storage,
                   recreated, pc, scans, loc, spinner_thread, obs, result, reports_dir>>

\* mutant: os.makedirs(extracted_folder_name, exist_ok=True)
Makedirs_ExistOk(p) ==
    /\ rec[p].pc = "makedirs"
    /\ recreated' = [recreated EXCEPT ![extracted_folder_name(rec[p].id)] =
                        IF @.state = "absent"
                        THEN [@ EXCEPT !.state = "created", !.by = p]
                        ELSE @]
    /\ rec' = [rec EXCEPT ![p] = [@ EXCEPT !.pc = "populate"]]
    /\ UNCHANGED <<imports, stream, st_cache, listed, api_files, mgr, rsdb_present, rsdb_init, report_storage,
                   pc, scans, loc, spinner_thread, obs, result, reports_dir>>

\* os.makedirs(extracted_folder_name): the directory is created, or
\* FileExistsError is raised and reported when it is there already
Makedirs(p) ==
    /\ rec[p].pc = "makedirs"
    /\ IF recreated[extracted_folder_name(rec[p].id)].state = "absent"
       THEN /\ recreated' = [recreated EXCEPT ![extracted_folder_name(rec[p].id)] =
                               [@ EXCEPT !.state = "created", !.by = p]]
            /\ rec' = [rec EXCEPT ![p] = [@ EXCEPT !.pc = "populate"]]
            /\ UNCHANGED pc
       ELSE /\ Finish(p, "conflict", FALSE)
            /\ UNCHANGED recreated
    /\ UNCHANGED <<imports, stream, st_cache, listed, api_files, mgr, rsdb_present, rsdb_init, report_storage,
                   scans, loc, spinner_thread, obs, result, reports_dir>>

\* db.db_report_recreate(extracted_folder_name, id_to_extract): the
\* artifacts of the report are written into the directory; an unknown id
\* raises before anything is written, an error of a read or a write raises
\* part way; run() reports the exception and leaves the directory as it is
Populate(p) ==
    /\ rec[p].pc = "populate"
    /\ \E outcome \in {"ok", "raise"} :
         LET dir == extracted_folder_name(rec[p].id)
             known == rec[p].id \in 1..Len(report_storage)
             state == IF ~known THEN recreated[dir].state
                      ELSE IF outcome = "ok" THEN "complete" ELSE "partial"
         IN  /\ recreated' = [recreated EXCEPT ![dir] =
                                 [@ EXCEPT !.state = state,
                                           !.overwritten =
                                               @ \/ (known /\ (recreated[dir].by # p
                                                      \/ recreated[dir].state # "created"))]]
             /\ Finish(p, IF known /\ outcome = "ok" THEN "recreated" ELSE "error", known)
    /\ UNCHANGED <<imports, stream, st_cache, listed, api_files, mgr, rsdb_present, rsdb_init, report_storage,
                   scans, loc, spinner_thread, obs, result, reports_dir>>

ReportManager ==
    \/ Startup
    \/ DbChoice
    \/ OtherRecreate
    \/ \E p \in Instances : Makedirs(p)
    \/ \E p \in Instances : Populate(p)

(***************************************************************************)
(* run_streamed (main.py, streamlit_app.py)                                *)
(***************************************************************************)
\* what run_streamed leaves alone
scanner == <<pc, scans, loc, spinner_thread, obs, result, imports, api_files, mgr,
             rsdb_present, rsdb_init, report_storage, recreations, reports_dir,
             st_cache, listed>>

\* the child writes its next line; the write blocks while the pipe is full
ChildWrite ==
    /\ stream.child = "running"
    /\ stream.todo # <<>>
    /\ LET line == stream.written + 1
       IN  IF Head(stream.todo) = "stdout"
           THEN /\ Len(stream.out_pipe) < PipeCap
                /\ stream' = [stream EXCEPT !.todo = Tail(@), !.written = line,
                                             !.wrote_out = Append(@, line),
                                             !.out_pipe = Append(@, line)]
           ELSE /\ Len(stream.err_pipe) < PipeCap
                /\ stream' = [stream EXCEPT !.todo = Tail(@), !.written = line,
                                             !.wrote_err = Append(@, line),
                                             !.err_pipe = Append(@, line)]
    /\ UNCHANGED scanner

\* the child has written everything and exits: both pipes are closed
ChildExit ==
    /\ stream.child = "running"
    /\ stream.todo = <<>>
    /\ stream' = [stream EXCEPT !.child = "exited"]
    /\ UNCHANGED scanner

\* proc.stdout.readline(): a line, or '' at the end of the file; it blocks
\* while the pipe is empty and the child has it open
ReadStdout ==
    /\ stream.pc = "stdout"
    /\ IF stream.out_pipe # <<>>
       THEN stream' = [stream EXCEPT !.so = Append(@, Head(stream.out_pipe)),
                                     !.out_pipe = Tail(@), !.pc = "stderr"]
       ELSE /\ stream.child = "exited"
            /\ stream' = [stream EXCEPT !.pc = "stderr"]
    /\ UNCHANGED scanner

\* proc.stderr.readline(), likewise
ReadStderr ==
    /\ stream.pc = "stderr"
    /\ IF stream.err_pipe # <<>>
       THEN stream' = [stream EXCEPT !.se = Append(@, Head(stream.err_pipe)),
                                     !.err_pipe = Tail(@), !.pc = "poll"]
       ELSE /\ stream.child = "exited"
            /\ stream' = [stream EXCEPT !.pc = "poll"]
    /\ UNCHANGED scanner

\* proc.poll(): the loop goes on while the child runs; once it has exited
\* streamlit_app.py reads what is left in the two pipes and main.py does not
Poll ==
    /\ stream.pc = "poll"
    /\ IF stream.child = "running"
       THEN stream' = [stream EXCEPT !.pc = "stdout"]
       ELSE IF stream.version = "streamlit_app"
       THEN stream' = [stream EXCEPT !.so = @ \o stream.out_pipe, !.out_pipe = <<>>,
                                     !.se = @ \o stream.err_pipe, !.err_pipe = <<>>,
                                     !.pc = "returned"]
       ELSE stream' = [stream EXCEPT !.pc = "returned"]
    /\ UNCHANGED scanner

RunStreamed == ChildWrite \/ ChildExit \/ ReadStdout \/ ReadStderr \/ Poll

(***************************************************************************)
(* list_reports (main.py, streamlit_app.py)                                *)
(***************************************************************************)
\* the body of list_reports: the entries of reports/ (their order, newest
\* first, is not part of the value here)
ReadReportsDir(dir) == dir

\* a call through @st.cache_data: the body runs when nothing is stored for
\* the function, which takes no argument, and its value is stored; every
\* later call returns the stored value. Nothing in either file clears it.
ListReports ==
    /\ entry = "dashboard"
    /\ pc = "h_idle"
    /\ LET value == IF st_cache.filled THEN st_cache.value
                    ELSE ReadReportsDir(reports_dir)
       IN  /\ st_cache' = [filled |-> TRUE, value |-> value]
           /\ listed' = [called |-> TRUE, files |-> value, dir |-> reports_dir]
    /\ UNCHANGED <<pc, scans, loc, spinner_thread, obs, result, imports, api_files,
                   mgr, rsdb_present, rsdb_init, report_storage, recreations,
                   reports_dir, stream>>

(***************************************************************************)
(* The program.                                                            *)
(***************************************************************************)
Headless == H_Call \/ H_Precheck \/ H_Start \/ H_Return

ProcessReport == PR_Gather \/ PR_Render

Next == Cli \/ Headless \/ ProcessReport \/ ApiManager \/ ReportManager \/ RunStreamed
        \/ ListReports

Spec == Init /\ [][Next]_vars

(***************************************************************************)
(* Properties.                                                             *)
(***************************************************************************)
NoDot(s) == \A i \in 1..Len(s) : s[i] # "."
Renders == obs.xlsx_calls + obs.html_calls

\* C1: in the CLI scan and in run_headless_scan, once the reachability
\* precheck has returned false the scan has ended in failure, and for that
\* request no spinner was started, no data gathered, no renderer called and
\* no store accessed.
C1_UnreachableEndsScan ==
    obs.precheck = "false" =>
        /\ obs.outcome = "unreachable"
        /\ pc = IF entry = "cli" THEN "menu" ELSE "h_done"
        /\ (entry = "headless" => ~result.success /\ result.report_files = {})
        /\ obs.spinner_starts = 0
        /\ spinner_thread = "none"
        /\ obs.gather_calls = 0
        /\ Renders = 0
        /\ obs.store_access = {}
        /\ Len(report_storage) = obs.rows_at_start

C1_Witness ==
    /\ entry = "cli"
    /\ pc = "menu"
    /\ obs.precheck = "false"
    /\ obs.precheck_domain = <<"a", ".", "i", "o">>

C3_InvalidDomainRejected ==
    (entry = "headless" /\ pc # "h_idle"
        /\ (loc.short_domain = <<>> \/ NoDot(loc.short_domain))) =>
        /\ pc = "h_done"
        /\ ~result.success
        /\ result.report_files = {}
        /\ obs.precheck = "none"
        /\ obs.spinner_starts = 0
        /\ spinner_thread = "none"
        /\ obs.gather_calls = 0
        /\ Renders = 0

C3_Witness ==
    /\ entry = "headless"
    /\ pc = "h_done"
    /\ loc.short_domain = <<"l", "o", "c", "a", "l", "h", "o", "s", "t">>
    /\ ~result.success

\* C4: a CLI scan whose report format validation accepted (html or xlsx in
\* any letter case) and whose process_report ran to its end has called
\* exactly one renderer, the one of the requested format.
C4_AcceptedFormatRendered ==
    (entry = "cli" /\ obs.outcome = "finished") =>
        \/ /\ Lower(loc.report_filetype) = <<"x", "l", "s", "x">>
           /\ obs.xlsx_calls = 1
           /\ obs.html_calls = 0
        \/ /\ Lower(loc.report_filetype) = <<"h", "t", "m", "l">>
           /\ obs.html_calls = 1
           /\ obs.xlsx_calls = 0

\* C5: whenever run_headless_scan returns success = True, a renderer was
\* called exactly once during the call.
C5_SuccessMeansRendered ==
    (entry = "headless" /\ pc = "h_done" /\ result.success) => Renders = 1

\* C6: no exception escapes run_headless_scan.  Whatever the precheck, data
\* gathering or the renderer does, the call ends by returning a dict with
\* success, message and report_files, and report_files is empty whenever
\* success is False.
C6_HeadlessAlwaysReturnsDict ==
    entry = "headless" =>
        /\ pc \in {"h_idle", "h_precheck", "h_start", "gather", "render", "h_done"}
        /\ (obs.outcome \in {"raised", "rejected", "unreachable"} => pc = "h_done")
        /\ (pc = "h_done" =>
               /\ {"success", "message", "report_files"} \subseteq DOMAIN result
               /\ result.success \in BOOLEAN
               /\ (obs.outcome # "finished" => ~result.success)
               /\ (~result.success => result.report_files = {}))

C6_Witness ==
    /\ entry = "headless"
    /\ pc = "h_done"
    /\ obs.outcome = "raised"
    /\ obs.gather_calls = 1
    /\ reports_dir # {}
    /\ ~result.success

\* C7: process_report is never entered with a list of API identifiers
\* (other than the placeholder ['Empty']) none of which is valid.
C7_GatherNeedsUsableCredential ==
    (pc \in {"gather", "render"} /\ loc.used_api_flag # <<<<"E", "m", "p", "t", "y">>>>) =>
        \E i \in 1..Len(loc.used_api_flag) :
            Validate(api_keys, loc.used_api_flag[i]) = "valid"

C9_CountsOwnBackingTable ==
    (entry = "cli" /\ obs.row_query # <<>>
        /\ Lower(loc.dorking_flag) \in FixedCategories) =>
        obs.row_query = <<DorkPath(Lower(loc.dorking_flag)),
                          BackingTable(Lower(loc.dorking_flag))>>

\* C10: for a scan with a fixed dorking category c whose collection holds n
\* templates, the dorking mark is 'Yes, c dorking (n dorks)', c in lower case.
C10_FixedCategoryMark ==
    (entry = "cli" /\ obs.row_query # <<>>
        /\ Lower(loc.dorking_flag) \in FixedCategories) =>
        LET c == Lower(loc.dorking_flag)
            n == dork_store[DorkPath(c)][BackingTable(c)]
        IN  loc.dorking_ui_mark =
                <<"Y", "e", "s", ",", " ">> \o c \o <<" ", "d", "o", "r", "k", "i", "n", "g", " ", "(">> \o IntToStr(n) \o <<" ", "d", "o", "r", "k", "s", ")">>

\* C11: when dorking is disabled (mode 'n' in any letter case) no row count
\* of a dork collection is queried, the dorking mark of the summary is
\* exactly 'No', and the dorking flag handed to data gathering is 'n'.
C11_DorkingDisabled ==
    Lower(loc.dorking_flag) = <<"n">> =>
        /\ obs.row_query = <<>>
        /\ "dorks" \notin obs.store_access
        /\ (entry = "cli" /\ obs.spinner_starts > 0) => loc.dorking_ui_mark = <<"N", "o">>
        /\ obs.gather_calls > 0 => obs.gather_args.dorking_flag = <<"n">>

\* a scan typed with 'N' has been summarised and has gathered its data
C11_Witness ==
    /\ entry = "cli"
    /\ loc.dorking_flag = <<"N">>
    /\ loc.dorking_ui_mark = <<"N", "o">>
    /\ obs.spinner_starts = 1
    /\ obs.gather_calls = 1
    /\ pc = "render"

\* the two messages that end an update
UpdateSucceeded == mgr.op = "update" /\ mgr.report = "Successfully added new API key"
UpdateFailed ==
    mgr.op = "update" /\ mgr.report = "Something went wrong when adding new API key"

\* C12: an update of the key of an identifier that is not in the credential
\* store is reported as a failure, never as a success, and leaves every
\* stored credential as it was.
C12_UnknownIdReportedAsFailure ==
    (mgr.op = "update" /\ mgr.report # "none" /\ mgr.id \notin DOMAIN mgr.before) =>
        /\ UpdateFailed
        /\ api_keys = mgr.before

\* C13: a successful update of the key of an existing identifier i with the
\* key k leaves api_key(i) = k and every other credential as it was; after
\* any sequence of updates every identifier holds the key of the last update
\* applied to it, and the set of identifiers is the one the store began with.
C13_UpdateFrame ==
    /\ (UpdateSucceeded /\ mgr.id \in DOMAIN mgr.before) =>
           /\ DOMAIN api_keys = DOMAIN mgr.before
           /\ api_keys[mgr.id] = mgr.key
           /\ \A j \in DOMAIN mgr.before \ {mgr.id} : api_keys[j] = mgr.before[j]
    /\ api_db = "complete" =>
           /\ DOMAIN api_keys = DOMAIN ApiKeys
           /\ \A i \in DOMAIN mgr.applied : api_keys[i] = mgr.applied[i]

\* the key of API 1 was set to NEW and then to K2, API 2 has been updated too
C13_Witness ==
    /\ UpdateSucceeded
    /\ pc = "menu"
    /\ mgr.id = <<"1">>
    /\ mgr.key = <<"K", "2">>
    /\ mgr.before[<<"1">>] = <<"N", "E", "W">>
    /\ DOMAIN mgr.applied = {<<"1">>, <<"2">>}
    /\ api_keys[<<"1">>] = <<"K", "2">>
    /\ api_keys[<<"3">>] = <<"K", "E", "Y", "3">>

\* C14: when the reference credential set exists, RestoreDefaults leaves the
\* working set equal to the reference set, whatever the working set held
\* before and whether or not it existed; applied a second time it gives the
\* same store again.
C14_RestoreGivesReference ==
    (mgr.op = "restore" /\ pc = "menu" /\ api_reference) =>
        /\ mgr.report = "Successfully restored reference API Keys DB"
        /\ api_db = "complete"
        /\ api_keys = ApiReference

\* RestoreDefaults has been applied to a store that was already restored
C14_Witness ==
    /\ mgr.op = "restore"
    /\ pc = "menu"
    /\ api_reference
    /\ mgr.before = ApiReference
    /\ api_keys = ApiReference

\* C20: a reader of the credential store that runs while RestoreDefaults or
\* a key update is under way on an existing store never finds the working
\* store absent or partially written.
C20_ReaderSeesWholeStore ==
    (seen.during \in {"update", "restore"} /\ seen.before = "complete") =>
        seen.db = "complete"

\* the directory the Recreate of an instance is aimed at
Destination(p) == recreated[extracted_folder_name(rec[p].id)]

\* C15: of the Recreate calls aimed at one destination directory, one after
\* the other or at the same time, at most one creates and populates it; every
\* other one ends with the conflict before it has written anything, and what
\* the first call wrote is never written over.
C15_RecreateExclusive ==
    /\ \A d \in DOMAIN recreated : ~recreated[d].overwritten
    /\ \A p \in Instances :
          /\ rec[p].pc = "populate" => Destination(p).by = p
          /\ (rec[p].pc = "done" /\ rec[p].report # "conflict") => Destination(p).by = p
          /\ (rec[p].pc = "done" /\ Destination(p).by # p) =>
                 rec[p].report = "conflict" /\ ~rec[p].wrote
          /\ rec[p].report = "conflict" => ~rec[p].wrote

\* the other instance met the conflict while the main program, which had
\* created the directory of report 1, had not yet populated it
C15_Witness ==
    /\ rec["main"].pc = "populate"
    /\ rec["main"].id = 1
    /\ rec["other"].pc = "done"
    /\ rec["other"].id = 1
    /\ rec["other"].report = "conflict"
    /\ Destination("main").state = "created"

\* C16: after a Recreate that failed for another reason than the conflict
\* (unknown report id, error of a read or a write) its destination directory
\* does not exist; a destination directory that no call is working on exists
\* only fully populated.
C16_NoDirectoryAfterFailure ==
    /\ \A p \in Instances :
          (rec[p].pc = "done" /\ rec[p].report = "error") =>
              ~(Destination(p).state # "absent" /\ Destination(p).by = p)
    /\ \A d \in DOMAIN recreated :
          recreated[d].state \in {"created", "partial"} =>
              \E p \in Instances : /\ rec[p].pc = "populate"
                                    /\ extracted_folder_name(rec[p].id) = d

\* C17: the initialization of the report store is idempotent: at startup and
\* on every entry to the storage menu db_creation is called only when the
\* presence check found no store, and the rows of a store that was there are
\* what they were.
C17_InitKeepsExistingStore ==
    rsdb_init.at # "none" =>
        /\ rsdb_present
        /\ rsdb_init.created <=> ~rsdb_init.present
        /\ rsdb_init.present => report_storage = rsdb_init.rows

\* the storage menu is entered after startup, on a store that holds a report
C17_Witness ==
    /\ rsdb_init.at = "menu"
    /\ rsdb_init.present
    /\ ~rsdb_init.created
    /\ report_storage = StoredReports
    /\ pc = "db_choice"

\* a date of the form YYYYMMDD, and the order of two of them
IsDate(s) == Len(s) = 8 /\ \A i \in 1..8 : IsDigit(s[i])
DigitValue(c) == (CHOOSE i \in 1..10 : DigitChars[i] = c) - 1
DateAfter(a, b) ==
    \E i \in 1..8 : /\ \A j \in 1..(i - 1) : a[j] = b[j]
                     /\ DigitValue(a[i]) > DigitValue(b[i])

\* C18: a scan whose snapshot mode is the archive range ('w') and whose
\* start date is later than its end date is refused when the request is
\* validated: process_report is never entered and data gathering never
\* called for it.
C18_ReversedRangeRejected ==
    (/\ Lower(loc.snapshotting_flag) = <<"w">>
     /\ IsDate(loc.from_date) /\ IsDate(loc.end_date)
     /\ DateAfter(loc.from_date, loc.end_date)) =>
        /\ pc \notin {"gather", "render"}
        /\ obs.gather_calls = 0

\* C19: data gathering is never called with the snapshot mode 'w' while the
\* start date or the end date is missing (the placeholder 'N' or the empty
\* string).
C19_RangeHasBothDates ==
    (obs.gather_calls > 0 /\ Lower(obs.gather_args.snapshotting_flag) = <<"w">>) =>
        /\ obs.gather_args.from_date \notin {<<"N">>, <<>>}
        /\ obs.gather_args.end_date \notin {<<"N">>, <<>>}

\* C21: whenever the page-search mark of a scan says that page search ran
\* with the keyword list K ('Yes, with K keywords search'), process_report
\* hands page search enabled and exactly the list K to data_gathering, in
\* whatever letter case the accepted flag was typed.
C21_MarkMatchesGathering ==
    (/\ obs.gather_calls > 0
     /\ loc.pagesearch_ui_mark =
            <<"Y", "e", "s", ",", " ", "w", "i", "t", "h", " ">> \o ListRepr(loc.keywords_list) \o <<" ", "k", "e", "y", "w", "o", "r", "d", "s", " ", "s", "e", "a", "r", "c", "h">>) =>
        /\ obs.gather_args.pagesearch_flag = <<"y">>
        /\ obs.gather_args.keywords_list = loc.keywords_list

\* the answers of the dialogue that are a valid request
ValidDialogue(l) ==
    /\ Lower(l.report_filetype) \in {<<"h", "t", "m", "l">>, <<"x", "l", "s", "x">>}
    /\ Lower(l.pagesearch_flag) \in {<<"y">>, <<"n">>}
    /\ \/ Lower(l.dorking_flag) \in {<<"n">>, <<"b", "a", "s", "i", "c">>, <<"i", "o", "t">>, <<"f", "i", "l", "e", "s">>, <<"a", "d", "m", "i", "n", "s">>, <<"w", "e", "b">>}
       \/ \E name \in CustomNameInputs : l.dorking_flag = <<"c", "u", "s", "t", "o", "m", "+">> \o name \o <<".", "d", "b">>
    /\ Lower(l.api_flag) \in {<<"y">>, <<"n">>}
    /\ Lower(l.api_flag) = <<"y">> =>
           \E i \in 1..Len(l.used_api_flag) : Validate(api_keys, l.used_api_flag[i]) = "valid"
    /\ Lower(l.snapshotting_flag) \in {<<"s">>, <<"p">>, <<"w">>, <<"n">>}

\* C22: in the dialogue of run(), the spinner is started and process_report
\* entered only for a request every answer of which is valid (report type,
\* PageSearch flag, dorking mode, API mode with the key check passed,
\* snapshotting mode, in any letter case); an attempt that ends on an invalid
\* answer has started no spinner and gathered no data.
C22_OnlyValidatedRequests ==
    entry = "cli" =>
        /\ (obs.spinner_starts > 0 \/ obs.gather_calls > 0 \/ pc \in {"gather", "render"})
               => ValidDialogue(loc)
        /\ obs.outcome \in {"rejected", "no usable credential"} =>
               /\ obs.spinner_starts = 0
               /\ obs.gather_calls = 0
               /\ spinner_thread = "none"

\* a scan with every answer in upper case or non-default has reached the
\* renderer
C22_Witness ==
    /\ entry = "cli"
    /\ pc = "render"
    /\ loc.report_filetype = <<"H", "T", "M", "L">>
    /\ loc.pagesearch_flag = <<"Y">>
    /\ loc.dorking_flag = <<"c", "u", "s", "t", "o", "m", "+", "m", "i", "n", "e", ".", "d", "b">>
    /\ loc.api_flag = <<"y">>
    /\ loc.snapshotting_flag = <<"W">>
    /\ obs.gather_calls = 1

\* C23: run_headless_scan hands to data gathering only a snapshotting mode
\* among n, s, p, w and a dorking mode that is n, a fixed category, or custom
\* together with the name of a collection; with any other value of a flag it
\* returns a failure and gathers nothing.
C23_HeadlessFlagsValidated ==
    (entry = "headless" /\ obs.gather_calls > 0) =>
        /\ Lower(obs.gather_args.snapshotting_flag) \in {<<"n">>, <<"s">>, <<"p">>, <<"w">>}
        /\ \/ obs.gather_args.dorking_flag \in {<<"n">>, <<"b", "a", "s", "i", "c">>, <<"i", "o", "t">>, <<"f", "i", "l", "e", "s">>,
                                                <<"a", "d", "m", "i", "n", "s">>, <<"w", "e", "b">>}
           \/ StartsWith(obs.gather_args.dorking_flag, <<"c", "u", "s", "t", "o", "m", "+">>)

\* C24: run_streamed returns as captured_stdout and captured_stderr the whole
\* of what the child wrote to each stream up to its exit, in the order it was
\* written; no line still in a pipe when the child exits is lost, in the copy
\* of main.py as in the copy of streamlit_app.py.
C24_CapturesAllOutput ==
    stream.pc = "returned" =>
        /\ stream.so = stream.wrote_out
        /\ stream.se = stream.wrote_err

\* C29: run_streamed never comes to a halt with the child still running:
\* the reader is never blocked on one stream, empty and open, while the child
\* is blocked writing to the other, which is full.
C29_NoDeadlock ==
    ~(/\ stream.child = "running"
      /\ stream.todo # <<>>
      /\ \/ /\ stream.pc = "stdout" /\ stream.out_pipe = <<>>
            /\ Head(stream.todo) = "stderr" /\ Len(stream.err_pipe) >= PipeCap
         \/ /\ stream.pc = "stderr" /\ stream.err_pipe = <<>>
            /\ Head(stream.todo) = "stdout" /\ Len(stream.out_pipe) >= PipeCap)

\* C25: when the reference credential set is missing, RestoreDefaults
\* reports the failure and the working credential set is, after the call,
\* what it was before the call.
C25_FailedRestoreKeepsWorkingSet ==
    (mgr.op = "restore" /\ pc = "menu" /\ ~api_reference) =>
        /\ mgr.report = "Reference API Keys DB was not found"
        /\ api_keys = mgr.before

C27_ReportFilesOfThisCall ==
    (entry = "headless" /\ pc = "h_done" /\ result.success) =>
        \A f \in result.report_files :
            /\ f = RenderedFile(loc)
            /\ obs.xlsx_calls + obs.html_calls > 0

\* C28: the loop of run() is never left by an exception: whatever is typed
\* (a report id that is not a number included) and whatever fails in a scan,
\* a key update, a restore or a recreate, the program does not end other than
\* by menu choice 7.
C28_LoopSurvives ==
    entry \in {"cli", "api_manager", "report_manager"} => pc # "crashed"

\* C30: a call of list_reports returns the content the reports directory
\* has at that call: a report written by a scan is in the next listing.
C30_ListingIsCurrent ==
    listed.called => listed.files = listed.dir
=============================================================================
